---------------------------- MODULE Spec2Model ----------------------------
(***************************************************************************)
(* A model of the SRT generator (srt_generator_mfa.py and its GUI sibling  *)
(* srt_generator_ui.py): parse_textgrid, reinject_case_and_characters,     *)
(* group_words_into_sentences, seconds_to_timestamp, create_srt and the    *)
(* three pipeline entry points (main, generate_subtitles, the GUI).        *)
(*                                                                         *)
(* Strings are sequences of one-character strings, so that strip, split,   *)
(* lower, re.sub and re.findall are computed character by character.       *)
(* Times are integers counted in ticks of 1/10000 second.                  *)
(* A Python dict is a function whose DOMAIN is the set of its keys.        *)
(***************************************************************************)
EXTENDS Integers, Sequences, FiniteSets, TLC

VARIABLES
    pc,                 \* the position of the running function
    pos,                \* how many elements the running for loop has fetched
    word_intervals,     \* the list handed to reinject / group (dicts are mutated in place)
    original_script,    \* the transcript text
    words_from_script,  \* re.findall(r"\S+", original_script)
    updated_intervals,  \* reinject's output list
    script_index,       \* reinject's cursor (0-based, as in the source)
    input_intervals,    \* history: word_intervals as it was at the call
    matched,            \* history: per appended interval, the 1-based token matched (0: none)
    variant,            \* which file's group_words_into_sentences runs: "mfa" or "ui"
    max_chars,          \* group's second argument
    subtitles,          \* group's output list of <<start, end, text>>
    current_sentence,   \* group's running line
    sentence_start,     \* group's recorded start: <<>> is None, <<t>> is t
    line_words,         \* history: positions of the words accumulated since the last close
    seconds,            \* seconds_to_timestamp's argument, in ticks
    timestamp,          \* seconds_to_timestamp's result
    document,           \* history: what each line of the TextGrid document declares
    lines,              \* the TextGrid document as the file holds it: a sequence of lines
    intervals,          \* parse_textgrid's output list
    current_interval,   \* parse_textgrid's accumulator dict
    in_words_tier,      \* parse_textgrid's flag
    entry,              \* the pipeline entry point of this run
    mfa,                \* the alignment engine: "idle", "running", or how it ended
    textgrid,           \* the engine's output file: <<>> is absent, <<doc>> is present
    save_path,          \* the GUI's save dialog: TRUE when the user picks a path
    srt_file,           \* the subtitle file: <<>> is not written, <<blocks>> is written
    outcome,            \* how the run ended: "running" until it has
    trace,              \* history: the calls made by the run, in order
    run_button          \* the GUI's run button is enabled

vars == <<pc, pos, word_intervals, original_script, words_from_script,
          updated_intervals, script_index, input_intervals, matched,
          variant, max_chars, subtitles, current_sentence, sentence_start, line_words,
          seconds, timestamp, document, lines, intervals, current_interval, in_words_tier,
          entry, mfa, textgrid, save_path, srt_file, outcome, trace, run_button>>

reinject_vars == <<original_script, words_from_script, updated_intervals,
                   script_index, input_intervals, matched>>
group_vars == <<variant, max_chars, subtitles, current_sentence, sentence_start, line_words>>
timestamp_vars == <<seconds, timestamp>>
parse_vars == <<document, lines, intervals, current_interval, in_words_tier>>
pipeline_vars == <<entry, mfa, textgrid, save_path, srt_file, outcome, trace, run_button>>

(***************************************************************************)
(* Bounds of the model.                                                    *)
(***************************************************************************)
MaxIntervals == 3
MaxScriptLen == 3
MaxWords == 3
MaxLines == 4
MaxHours == 1

\* Every sequence over S of length at most n.
SeqsUpTo(S, n) == UNION {[1..k -> S] : k \in 0..n}

(***************************************************************************)
(* Characters and the string operations the code uses.                     *)
(***************************************************************************)
Whitespace == {" "}
UpperCase == {"A", "B", "L", "S", "W"}
LowerCase == {"a", "b", "c", "d", "e", "g", "h", "i", "l", "m", "n", "o", "p", "r", "s",
              "t", "w", "x"}
Digits == {"0", "1", "2", "3", "4", "5", "6", "7", "8", "9"}
\* What the regular expression class \w matches (so \W is everything else).
WordChars == UpperCase \cup LowerCase \cup Digits \cup {"_"}

lower_char(c) ==
    CASE c = "A" -> "a"
      [] c = "B" -> "b"
      [] c = "L" -> "l"
      [] c = "S" -> "s"
      [] c = "W" -> "w"
      [] OTHER -> c

lower(s) == [k \in 1..Len(s) |-> lower_char(s[k])]

RECURSIVE lstrip(_, _)
lstrip(s, chars) ==
    IF s # <<>> /\ Head(s) \in chars THEN lstrip(Tail(s), chars) ELSE s

RECURSIVE rstrip(_, _)
rstrip(s, chars) ==
    IF s # <<>> /\ s[Len(s)] \in chars THEN rstrip(SubSeq(s, 1, Len(s) - 1), chars) ELSE s

\* str.strip() and str.strip('"')
strip(s) == rstrip(lstrip(s, Whitespace), Whitespace)
strip_quotes(s) == rstrip(lstrip(s, {"\""}), {"\""})

startswith(s, prefix) ==
    /\ Len(s) >= Len(prefix)
    /\ SubSeq(s, 1, Len(prefix)) = prefix

\* re.sub(r'\W+', '', s).lower()
clean(s) == lower(SelectSeq(s, LAMBDA c : c \in WordChars))

\* re.findall(r"\S+", s): the maximal runs of non-whitespace characters, in order.
RECURSIVE findall_nonspace(_, _, _)
findall_nonspace(s, run, acc) ==
    IF s = <<>>
    THEN IF run = <<>> THEN acc ELSE Append(acc, run)
    ELSE IF Head(s) \in Whitespace
         THEN findall_nonspace(Tail(s), <<>>, IF run = <<>> THEN acc ELSE Append(acc, run))
         ELSE findall_nonspace(Tail(s), Append(run, Head(s)), acc)

(***************************************************************************)
(* reinject_case_and_characters                                            *)
(***************************************************************************)
\* interval.get("text", "")
get_text(interval) == IF "text" \in DOMAIN interval THEN interval.text ELSE <<>>

\* `if not word.strip(): continue`
skipped(interval) == strip(get_text(interval)) = <<>>

\* A variant of while_body that leaves the cursor on the token it matched.
while_body_no_advance_on_match(tokens, index, word) ==
    LET candidate == tokens[index + 1]
        hit == clean(candidate) = clean(word)
    IN  [script_index |-> IF hit THEN index ELSE index + 1,
         candidate |-> candidate,
         hit |-> hit]

\* One iteration of the while loop: fetch the candidate, advance the cursor, compare.
while_body(tokens, index, word) ==
    LET candidate == tokens[index + 1]
    IN  [script_index |-> index + 1,
         candidate |-> candidate,
         hit |-> clean(candidate) = clean(word)]

\* A variant of while_exit that rewinds the cursor when the scan found nothing.
while_exit_rewinds(tokens, index) == 0

\* The cursor when the while loop ends because its condition is false.
while_exit(tokens, index) == index

\* A variant of for_continue that keeps the empty-text interval in the output.
for_continue_keeps(out, interval) == Append(out, interval)

\* The output list after `continue` on an interval with empty or blank text.
for_continue(out, interval) == out

\* The whole while loop for one interval: the cursor, the text and the token matched.
RECURSIVE while_loop(_, _, _)
while_loop(tokens, index, word) ==
    IF index < Len(tokens)
    THEN LET b == while_body(tokens, index, word)
         IN  IF b.hit
             THEN [script_index |-> b.script_index, text |-> b.candidate,
                   matched |-> b.script_index]
             ELSE while_loop(tokens, b.script_index, word)
    ELSE [script_index |-> while_exit(tokens, index), text |-> word, matched |-> 0]

\* The whole function, as the pipeline calls it.
RECURSIVE reinject_from(_, _, _, _)
reinject_from(list, k, tokens, st) ==
    IF k > Len(list)
    THEN st.out
    ELSE IF skipped(list[k])
         THEN reinject_from(list, k + 1, tokens,
                            [st EXCEPT !.out = for_continue(st.out, list[k])])
         ELSE LET w == while_loop(tokens, st.script_index, get_text(list[k]))
              IN  reinject_from(list, k + 1, tokens,
                                [script_index |-> w.script_index,
                                 out |-> Append(st.out, [list[k] EXCEPT !.text = w.text])])

reinject_case_and_characters(list, script) ==
    reinject_from(list, 1, findall_nonspace(script, <<>>, <<>>),
                  [script_index |-> 0, out |-> <<>>])


(***************************************************************************)
(* The values a variable group holds while its function is not running.    *)
(***************************************************************************)
ReinjectIdle ==
    /\ original_script = <<>>
    /\ words_from_script = <<>>
    /\ updated_intervals = <<>>
    /\ script_index = 0
    /\ input_intervals = <<>>
    /\ matched = <<>>

GroupIdle ==
    /\ variant = "mfa"
    /\ max_chars = 0
    /\ subtitles = <<>>
    /\ current_sentence = <<>>
    /\ sentence_start = <<>>
    /\ line_words = <<>>

TimestampIdle ==
    /\ seconds = 0
    /\ timestamp = <<>>

ParseIdle ==
    /\ document = <<>>
    /\ lines = <<>>
    /\ intervals = <<>>
    /\ current_interval = <<>>
    /\ in_words_tier = FALSE

PipelineIdle ==
    /\ entry = "none"
    /\ mfa = "idle"
    /\ textgrid = <<>>
    /\ save_path = FALSE
    /\ srt_file = <<>>
    /\ outcome = "running"
    /\ trace = <<>>
    /\ run_button = TRUE

(***************************************************************************)
(* SpecReinject: reinject_case_and_characters, one loop iteration a step.  *)
(***************************************************************************)
IntervalTexts == {<<>>, <<" ">>, <<"a">>, <<"b">>}
ScriptChars == {"A", "b", "'", " "}

\* The interval lists handed to the function: the k-th spans [k-1, k].
ReinjectInputs ==
    {[k \in 1..Len(texts) |-> [xmin |-> k - 1, xmax |-> k, text |-> texts[k]]] :
        texts \in SeqsUpTo(IntervalTexts, MaxIntervals)}

ReinjectInit ==
    /\ pc = "reinject_call"
    /\ pos = 0
    /\ word_intervals \in ReinjectInputs
    /\ input_intervals = word_intervals
    /\ original_script \in SeqsUpTo(ScriptChars, MaxScriptLen)
    /\ words_from_script = <<>>
    /\ updated_intervals = <<>>
    /\ script_index = 0
    /\ matched = <<>>
    /\ GroupIdle /\ TimestampIdle /\ ParseIdle /\ PipelineIdle

\* Lines 13-15: tokenize the script, start with an empty output and the cursor at 0.
ReinjectEnter ==
    /\ pc = "reinject_call"
    /\ words_from_script' = findall_nonspace(original_script, <<>>, <<>>)
    /\ updated_intervals' = <<>>
    /\ script_index' = 0
    /\ pc' = "reinject_for"
    /\ UNCHANGED <<pos, word_intervals, original_script, input_intervals, matched>>
    /\ UNCHANGED <<group_vars, timestamp_vars, parse_vars, pipeline_vars>>

\* Lines 17-20: fetch the next interval; an empty or blank one is skipped.
ReinjectFor ==
    /\ pc = "reinject_for"
    /\ pos < Len(word_intervals)
    /\ pos' = pos + 1
    /\ IF skipped(word_intervals[pos + 1])
       THEN /\ updated_intervals' = for_continue(updated_intervals, word_intervals[pos + 1])
            /\ pc' = "reinject_for"
       ELSE /\ updated_intervals' = updated_intervals
            /\ pc' = "reinject_while"
    /\ UNCHANGED <<word_intervals, original_script, words_from_script, script_index,
                   input_intervals, matched>>
    /\ UNCHANGED <<group_vars, timestamp_vars, parse_vars, pipeline_vars>>

\* Lines 22-30: one test of the while condition and, when it holds, one iteration.
ReinjectWhile ==
    /\ pc = "reinject_while"
    /\ IF script_index < Len(words_from_script)
       THEN LET b == while_body(words_from_script, script_index,
                                get_text(word_intervals[pos]))
            IN  /\ script_index' = b.script_index
                /\ IF b.hit
                   THEN /\ word_intervals' =
                               [word_intervals EXCEPT ![pos].text = b.candidate]
                        /\ matched' = Append(matched, script_index + 1)
                        /\ pc' = "reinject_append"
                   ELSE /\ UNCHANGED <<word_intervals, matched>>
                        /\ pc' = "reinject_while"
       ELSE /\ script_index' = while_exit(words_from_script, script_index)
            /\ matched' = Append(matched, 0)
            /\ pc' = "reinject_append"
            /\ UNCHANGED word_intervals
    /\ UNCHANGED <<pos, original_script, words_from_script, updated_intervals,
                   input_intervals>>
    /\ UNCHANGED <<group_vars, timestamp_vars, parse_vars, pipeline_vars>>

\* Line 31: the interval, matched or not, joins the output.
ReinjectAppend ==
    /\ pc = "reinject_append"
    /\ updated_intervals' = Append(updated_intervals, word_intervals[pos])
    /\ pc' = "reinject_for"
    /\ UNCHANGED <<pos, word_intervals, original_script, words_from_script,
                   script_index, input_intervals, matched>>
    /\ UNCHANGED <<group_vars, timestamp_vars, parse_vars, pipeline_vars>>

\* Line 33: the loop is over.
ReinjectReturn ==
    /\ pc = "reinject_for"
    /\ pos = Len(word_intervals)
    /\ pc' = "reinject_return"
    /\ UNCHANGED <<pos, word_intervals, reinject_vars>>
    /\ UNCHANGED <<group_vars, timestamp_vars, parse_vars, pipeline_vars>>

ReinjectNext ==
    \/ ReinjectEnter
    \/ ReinjectFor
    \/ ReinjectWhile
    \/ ReinjectAppend
    \/ ReinjectReturn

SpecReinject == ReinjectInit /\ [][ReinjectNext]_vars

\* The positions of the intervals the function keeps: those whose text is not blank.
RECURSIVE KeptFrom(_, _)
KeptFrom(list, k) ==
    IF k > Len(list) THEN <<>>
    ELSE IF skipped(list[k]) THEN KeptFrom(list, k + 1)
         ELSE <<k>> \o KeptFrom(list, k + 1)

Kept == KeptFrom(input_intervals, 1)

\* The matched token positions, in output order, without the unmatched intervals.
MatchedOnly == SelectSeq(matched, LAMBDA m : m # 0)

\* C1: the cursor script_index never decreases, and of any two intervals that were
\* both matched, the later one matched a token strictly further in the transcript.
C1_CursorMonotonic ==
    [][/\ script_index' >= script_index
       /\ \A j, k \in 1..Len(MatchedOnly') : j < k => MatchedOnly'[j] < MatchedOnly'[k]]_vars

\* C1's case: the function returned with two intervals matched.
C1_Witness ==
    /\ pc = "reinject_return"
    /\ Len(MatchedOnly) >= 2

\* C2: once the scan of a non-blank interval ends at the end of the tokens with no
\* match, that interval keeps its input text, the cursor is at the end of the
\* transcript, no later interval is matched, every later non-blank interval keeps
\* its input text, and all of them are in the output when the function returns.
C2_NoMatchKeepsText ==
    \A j \in 1..Len(matched) :
        matched[j] = 0 =>
            /\ script_index = Len(words_from_script)
            /\ \A k \in j..Len(matched) : matched[k] = 0
            /\ \A k \in j..Len(updated_intervals) :
                   updated_intervals[k].text = input_intervals[Kept[k]].text
            /\ \A k \in j..Len(matched) :
                   word_intervals[Kept[k]].text = input_intervals[Kept[k]].text
            /\ pc = "reinject_return" => Len(updated_intervals) = Len(Kept)

\* C2's case: the function returned, a scan that consumed tokens failed, and a later
\* non-blank interval followed it.
C2_Witness ==
    /\ pc = "reinject_return"
    /\ Len(words_from_script) >= 1
    /\ Len(matched) >= 2
    /\ matched[1] = 0

\* C3: an interval with blank text leaves the cursor and the output as they are, and
\* the output at return is the non-blank inputs in their order, each with the keys,
\* xmin and xmax it came with.
C3_OutputIsKeptSubsequence ==
    [][/\ (pc = "reinject_for" /\ pos < Len(word_intervals)
             /\ skipped(word_intervals[pos + 1]))
          => (script_index' = script_index /\ updated_intervals' = updated_intervals)
       /\ (pc' = "reinject_return")
          => /\ Len(updated_intervals') = Len(Kept)
             /\ \A j \in 1..Len(Kept) :
                   /\ DOMAIN updated_intervals'[j] = DOMAIN input_intervals[Kept[j]]
                   /\ updated_intervals'[j].xmin = input_intervals[Kept[j]].xmin
                   /\ updated_intervals'[j].xmax = input_intervals[Kept[j]].xmax
                   /\ ~skipped(input_intervals[Kept[j]])]_vars

\* C3's case: the function returned after skipping a blank interval that lay between
\* two kept ones.
C3_Witness ==
    /\ pc = "reinject_return"
    /\ Len(input_intervals) > Len(updated_intervals)
    /\ Len(updated_intervals) >= 1
    /\ skipped(input_intervals[1])
    /\ script_index >= 1

(***************************************************************************)
(* group_words_into_sentences                                              *)
(***************************************************************************)
\* `".!?"`: the characters that end a sentence.
SentenceEnd == {".", "!", "?"}

\* word.get("text", "").strip()
word_text(word) == strip(get_text(word))

\* The candidate line. mfa: current_sentence + " " + word_text; ui: the f-string, stripped.
new_sentence(v, current, wt) ==
    IF current # <<>>
    THEN IF v = "mfa" THEN current \o <<" ">> \o wt ELSE strip(current \o <<" ">> \o wt)
    ELSE wt

\* A variant of closes that already closes a line of exactly max_chars characters.
closes_at_limit(candidate, wt, limit) ==
    Len(candidate) >= limit \/ wt[Len(wt)] \in SentenceEnd

\* `len(new_sentence) > max_chars or word_text[-1] in ".!?"`
closes(candidate, wt, limit) ==
    Len(candidate) > limit \/ wt[Len(wt)] \in SentenceEnd

\* The text of a closed cue. mfa: current_sentence.strip(); ui: new_sentence.
cue_text(v, candidate) == IF v = "mfa" THEN strip(candidate) ELSE candidate

\* A variant of start_after_close that forgets to clear the recorded start.
start_after_close_kept(start) == start

\* `sentence_start = None` after a cue is appended.
start_after_close(start) == <<>>

\* A variant of leftover_end that takes the end of the last word of the partial line.
leftover_end_of_last_word(list) ==
    LET last == CHOOSE k \in 1..Len(list) :
                    /\ ~skipped(list[k])
                    /\ \A j \in (k + 1)..Len(list) : skipped(list[j])
    IN  list[last].xmax

\* word_intervals[-1]["xmax"]
leftover_end(list) == list[Len(list)].xmax

\* One iteration of the for loop on the loop state st. raised: a KeyError left the function.
group_body(v, st, word, limit) ==
    LET wt == word_text(word)
    IN  IF wt = <<>> THEN st
        ELSE IF st.sentence_start = <<>> /\ "xmin" \notin DOMAIN word
        THEN [st EXCEPT !.raised = TRUE]
        ELSE LET start == IF st.sentence_start = <<>> THEN <<word.xmin>>
                          ELSE st.sentence_start
                 candidate == new_sentence(v, st.current_sentence, wt)
             IN  IF closes(candidate, wt, limit)
                 THEN IF "xmax" \notin DOMAIN word
                      THEN [st EXCEPT !.raised = TRUE]
                      ELSE [subtitles |-> Append(st.subtitles,
                                <<start[1], word.xmax, cue_text(v, candidate)>>),
                            current_sentence |-> <<>>,
                            sentence_start |-> start_after_close(start),
                            raised |-> FALSE]
                 ELSE [st EXCEPT !.current_sentence = candidate,
                                 !.sentence_start = start]

\* A variant of group_leftover that forgets the leftover line.
group_leftover_forgotten(v, st, list) == st

\* The code after the loop: the leftover line becomes a last cue.
group_leftover(v, st, list) ==
    IF st.current_sentence # <<>> /\ st.sentence_start # <<>>
    THEN IF "xmax" \notin DOMAIN list[Len(list)]
         THEN [st EXCEPT !.raised = TRUE]
         ELSE [st EXCEPT !.subtitles = Append(st.subtitles,
                   <<st.sentence_start[1], leftover_end(list),
                     IF v = "mfa" THEN strip(st.current_sentence)
                     ELSE st.current_sentence>>)]
    ELSE st

\* The whole function, as the pipeline calls it.
RECURSIVE group_from(_, _, _, _, _)
group_from(v, list, k, st, limit) ==
    IF st.raised THEN st
    ELSE IF k > Len(list) THEN group_leftover(v, st, list)
    ELSE group_from(v, list, k + 1, group_body(v, st, list[k], limit), limit)

group_words_into_sentences(v, list, limit) ==
    group_from(v, list, 1,
               [subtitles |-> <<>>, current_sentence |-> <<>>,
                sentence_start |-> <<>>, raised |-> FALSE], limit)

(***************************************************************************)
(* SpecGroup: group_words_into_sentences, one loop iteration a step.       *)
(***************************************************************************)
GroupTexts == {<<>>, <<"a">>, <<"a", ".">>, <<" ", "b", " ">>, <<"b", "b", "?">>}
Durations == {0, 1}
Limits == {1, 3}

\* Contiguous intervals, as a TextGrid tier holds them: each starts where the last ended.
RECURSIVE Contiguous(_, _)
Contiguous(items, from) ==
    IF items = <<>> THEN <<>>
    ELSE <<[xmin |-> from, xmax |-> from + Head(items)[1], text |-> Head(items)[2]]>>
         \o Contiguous(Tail(items), from + Head(items)[1])

GroupInputs ==
    {Contiguous(items, 0) : items \in SeqsUpTo(Durations \X GroupTexts, MaxWords)}

GroupState ==
    [subtitles |-> subtitles, current_sentence |-> current_sentence,
     sentence_start |-> sentence_start, raised |-> FALSE]

GroupInit ==
    /\ pc = "group_call"
    /\ pos = 0
    /\ word_intervals \in GroupInputs
    /\ variant \in {"mfa", "ui"}
    /\ max_chars \in Limits
    /\ subtitles = <<>>
    /\ current_sentence = <<>>
    /\ sentence_start = <<>>
    /\ line_words = <<>>
    /\ ReinjectIdle /\ TimestampIdle /\ ParseIdle /\ PipelineIdle

\* Lines 77-80: the empty output, the empty line, no recorded start.
GroupEnter ==
    /\ pc = "group_call"
    /\ subtitles' = <<>>
    /\ current_sentence' = <<>>
    /\ sentence_start' = <<>>
    /\ pc' = "group_for"
    /\ UNCHANGED <<pos, word_intervals, variant, max_chars, line_words>>
    /\ UNCHANGED <<reinject_vars, timestamp_vars, parse_vars, pipeline_vars>>

\* Lines 81-103: one iteration of the for loop.
GroupFor ==
    /\ pc = "group_for"
    /\ pos < Len(word_intervals)
    /\ LET st == group_body(variant, GroupState, word_intervals[pos + 1], max_chars)
       IN  /\ subtitles' = st.subtitles
           /\ current_sentence' = st.current_sentence
           /\ sentence_start' = st.sentence_start
           /\ pc' = IF st.raised THEN "KeyError" ELSE "group_for"
           /\ line_words' =
                  IF skipped(word_intervals[pos + 1]) THEN line_words
                  ELSE IF Len(st.subtitles) > Len(subtitles) THEN <<>>
                  ELSE Append(line_words, pos + 1)
    /\ pos' = pos + 1
    /\ UNCHANGED <<word_intervals, variant, max_chars>>
    /\ UNCHANGED <<reinject_vars, timestamp_vars, parse_vars, pipeline_vars>>

\* Lines 105-108: the loop is over; the leftover line, if any, is appended.
GroupLeftover ==
    /\ pc = "group_for"
    /\ pos = Len(word_intervals)
    /\ LET st == group_leftover(variant, GroupState, word_intervals)
       IN  /\ subtitles' = st.subtitles
           /\ pc' = IF st.raised THEN "KeyError" ELSE "group_return"
    /\ UNCHANGED <<pos, word_intervals, variant, max_chars, current_sentence,
                   sentence_start, line_words>>
    /\ UNCHANGED <<reinject_vars, timestamp_vars, parse_vars, pipeline_vars>>

GroupNext ==
    \/ GroupEnter
    \/ GroupFor
    \/ GroupLeftover

SpecGroup == GroupInit /\ [][GroupNext]_vars

\* The stripped texts of the words at the positions ps, joined by single spaces.
RECURSIVE JoinWords(_)
JoinWords(ps) ==
    IF ps = <<>> THEN <<>>
    ELSE IF Len(ps) = 1 THEN word_text(word_intervals[ps[1]])
    ELSE word_text(word_intervals[ps[1]]) \o <<" ">> \o JoinWords(Tail(ps))

\* C4: at every non-blank word the running line is the words accumulated since the
\* previous close; a cue is closed at the word exactly when the candidate line (the
\* line, a space and the word, or the word alone) is longer than max_chars or the
\* word ends in '.', '!' or '?'; the cue's text is the candidate line, its start the
\* start of the first accumulated word, its end the word's end; then the line is
\* empty, so the next word starts a new cue.
C4_CloseRule ==
    [][(pc = "group_for" /\ pos < Len(word_intervals)
          /\ ~skipped(word_intervals[pos + 1]))
       => LET word == word_intervals[pos + 1]
              wt == word_text(word)
              line == JoinWords(line_words)
              candidate == IF line = <<>> THEN wt ELSE line \o <<" ">> \o wt
              first == IF line_words = <<>> THEN pos + 1 ELSE line_words[1]
          IN  /\ current_sentence = line
              /\ IF Len(candidate) > max_chars \/ wt[Len(wt)] \in {".", "!", "?"}
                 THEN /\ subtitles' = Append(subtitles,
                              <<word_intervals[first].xmin, word.xmax, candidate>>)
                      /\ current_sentence' = <<>>
                      /\ sentence_start' = <<>>
                 ELSE /\ subtitles' = subtitles
                      /\ current_sentence' = candidate
                      /\ sentence_start' = <<word_intervals[first].xmin>>]_vars

\* C4's case: a cue closed by length alone, holding two words, after an earlier cue.
C4_Witness ==
    /\ pc = "group_return"
    /\ Len(subtitles) >= 2
    /\ \E c \in 1..Len(subtitles) :
           /\ c >= 2
           /\ Len(subtitles[c][3]) > max_chars
           /\ subtitles[c][3][Len(subtitles[c][3])] \notin SentenceEnd
           /\ " " \in {subtitles[c][3][k] : k \in 1..Len(subtitles[c][3])}

\* C5: after the loop, a partial line that no word closed becomes exactly one more
\* cue, from the start of the line's first word to the end time of the last entry of
\* the whole input, with the line as its text; with no partial line nothing is added.
C5_TrailingCue ==
    [][(pc = "group_for" /\ pos = Len(word_intervals))
       => subtitles' =
              IF line_words # <<>>
              THEN Append(subtitles,
                          <<word_intervals[line_words[1]].xmin,
                            word_intervals[Len(word_intervals)].xmax,
                            JoinWords(line_words)>>)
              ELSE subtitles]_vars

\* C5's case: the function returned a trailing cue after a closed one, and the input's
\* last entry is a blank interval that ends later than the line's last word.
C5_Witness ==
    /\ pc = "group_return"
    /\ line_words # <<>>
    /\ Len(subtitles) >= 2
    /\ skipped(word_intervals[Len(word_intervals)])
    /\ word_intervals[Len(word_intervals)].xmax
         > word_intervals[line_words[Len(line_words)]].xmax
    /\ subtitles[Len(subtitles)][2] = word_intervals[Len(word_intervals)].xmax

\* The precondition of C6: start <= end in every interval, each starting no earlier
\* than the previous one ended.
TimeOrdered(list) ==
    /\ \A k \in 1..Len(list) : list[k].xmin <= list[k].xmax
    /\ \A k \in 2..Len(list) : list[k].xmin >= list[k - 1].xmax

\* C6 as stated: on time-ordered input every cue has start <= end and a non-empty
\* text, and the cues' starts are strictly increasing.
C6_StrictlyIncreasingStarts ==
    (pc = "group_return" /\ TimeOrdered(word_intervals))
    => /\ \A c \in 1..Len(subtitles) :
              subtitles[c][1] <= subtitles[c][2] /\ subtitles[c][3] # <<>>
       /\ \A c, d \in 1..Len(subtitles) : c < d => subtitles[c][1] < subtitles[d][1]

\* C6 amended: on time-ordered input every cue has start <= end and a non-empty
\* text, and the cues' starts never decrease; they are strictly increasing when
\* every interval with non-blank text has start < end.
C6_OrderedCues ==
    (pc = "group_return" /\ TimeOrdered(word_intervals))
    => /\ \A c \in 1..Len(subtitles) :
              subtitles[c][1] <= subtitles[c][2] /\ subtitles[c][3] # <<>>
       /\ \A c, d \in 1..Len(subtitles) : c < d => subtitles[c][1] <= subtitles[d][1]
       /\ (\A k \in 1..Len(word_intervals) :
               skipped(word_intervals[k]) \/ word_intervals[k].xmin < word_intervals[k].xmax)
          => \A c, d \in 1..Len(subtitles) : c < d => subtitles[c][1] < subtitles[d][1]

\* C6's case: three cues from time-ordered input whose words all last some time.
C6_Witness ==
    /\ pc = "group_return"
    /\ TimeOrdered(word_intervals)
    /\ Len(subtitles) >= 3
    /\ \A k \in 1..Len(word_intervals) : word_intervals[k].xmin < word_intervals[k].xmax

\* The texts of the cues, in order, joined by single spaces.
RECURSIVE JoinCues(_)
JoinCues(cues) ==
    IF cues = <<>> THEN <<>>
    ELSE IF Len(cues) = 1 THEN cues[1][3]
    ELSE cues[1][3] \o <<" ">> \o JoinCues(Tail(cues))

\* C11: the texts of the returned cues, joined in order by single spaces, are the
\* stripped texts of the input's non-blank words, joined in order by single spaces:
\* no word is lost, repeated or moved.
C11_WordsPreserved ==
    pc = "group_return"
    => JoinCues(subtitles) = JoinWords(KeptFrom(word_intervals, 1))

\* C11's case: the function returned a closed cue and a trailing one from an input
\* of three non-blank words or of words around a blank interval.
C11_Witness ==
    /\ pc = "group_return"
    /\ Len(subtitles) >= 2
    /\ line_words # <<>>
    /\ Len(word_intervals) >= 3
    /\ ~skipped(word_intervals[1])

(***************************************************************************)
(* seconds_to_timestamp                                                    *)
(***************************************************************************)
\* The resolution of a time in the model: ticks per second.
TicksPerSecond == 10000

DigitChar(d) ==
    CASE d = 0 -> "0" [] d = 1 -> "1" [] d = 2 -> "2" [] d = 3 -> "3" [] d = 4 -> "4"
      [] d = 5 -> "5" [] d = 6 -> "6" [] d = 7 -> "7" [] d = 8 -> "8" [] d = 9 -> "9"

\* str(n) of a non-negative integer.
RECURSIVE decimal(_)
decimal(n) == IF n < 10 THEN <<DigitChar(n)>> ELSE decimal(n \div 10) \o <<DigitChar(n % 10)>>

\* The format specs :02 and :03: zeros on the left up to the width, never a cut.
RECURSIVE zero_pad(_, _)
zero_pad(s, width) == IF Len(s) >= width THEN s ELSE zero_pad(<<"0">> \o s, width)

\* int(round(x * 1000)) of the fraction x given in ticks. Python rounds the float
\* it holds; a decimal that lies half way between two milliseconds is held a
\* little above or below the half, so either neighbour can result (tie_up).
round_milliseconds(fraction, tie_up) ==
    LET per_ms == TicksPerSecond \div 1000
        whole == fraction \div per_ms
        rest == fraction % per_ms
    IN  IF 2 * rest > per_ms \/ (2 * rest = per_ms /\ tie_up) THEN whole + 1 ELSE whole

seconds_to_timestamp(s, tie_up) ==
    LET hours == s \div (3600 * TicksPerSecond)
        minutes == (s % (3600 * TicksPerSecond)) \div (60 * TicksPerSecond)
        secs == (s % (60 * TicksPerSecond)) \div TicksPerSecond
        milliseconds == round_milliseconds(s - (s \div TicksPerSecond) * TicksPerSecond,
                                           tie_up)
    IN  zero_pad(decimal(hours), 2) \o <<":">> \o zero_pad(decimal(minutes), 2)
        \o <<":">> \o zero_pad(decimal(secs), 2) \o <<",">>
        \o zero_pad(decimal(milliseconds), 3)

(***************************************************************************)
(* SpecTimestamp: seconds_to_timestamp applied to one argument.            *)
(***************************************************************************)
MinuteChoices == {0, 1, 2, 59}
SecondChoices == {0, 1, 5, 59}
\* Fractions of a second in ticks: 0.9996 s is 9996.
FractionChoices == {0, 4, 5, 4000, 9994, 9995, 9996}

TimestampInputs ==
    {((h * 60 + m) * 60 + sec) * TicksPerSecond + f :
        h \in 0..MaxHours, m \in MinuteChoices, sec \in SecondChoices,
        f \in FractionChoices}

TimestampInit ==
    /\ pc = "timestamp_call"
    /\ pos = 0
    /\ word_intervals = <<>>
    /\ seconds \in TimestampInputs
    /\ timestamp = <<>>
    /\ ReinjectIdle /\ GroupIdle /\ ParseIdle /\ PipelineIdle

\* Lines 35-41: the whole function.
TimestampCall ==
    /\ pc = "timestamp_call"
    /\ \E tie_up \in BOOLEAN : timestamp' = seconds_to_timestamp(seconds, tie_up)
    /\ pc' = "timestamp_return"
    /\ UNCHANGED <<pos, word_intervals, seconds>>
    /\ UNCHANGED <<reinject_vars, group_vars, parse_vars, pipeline_vars>>

TimestampNext == TimestampCall

SpecTimestamp == TimestampInit /\ [][TimestampNext]_vars

\* The characters of s after its first comma.
RECURSIVE after_comma(_)
after_comma(s) ==
    IF s = <<>> THEN <<>>
    ELSE IF Head(s) = "," THEN Tail(s) ELSE after_comma(Tail(s))

\* HH:MM:SS,mmm of a whole number of milliseconds.
ClockOfMilliseconds(total) ==
    zero_pad(decimal(total \div 3600000), 2) \o <<":">>
    \o zero_pad(decimal((total % 3600000) \div 60000), 2) \o <<":">>
    \o zero_pad(decimal((total % 60000) \div 1000), 2) \o <<",">>
    \o zero_pad(decimal(total % 1000), 3)

\* C7: the millisecond field has three digits (000..999), and the timestamp is the
\* clock reading of the argument rounded to a millisecond, a rounding up to 1000
\* milliseconds carried into the seconds, minutes and hours.
C7_MillisecondCarry ==
    pc = "timestamp_return"
    => /\ Len(after_comma(timestamp)) = 3
       /\ \E tie_up \in BOOLEAN :
              timestamp =
                  ClockOfMilliseconds(
                      (seconds \div TicksPerSecond) * 1000
                      + round_milliseconds(seconds % TicksPerSecond, tie_up))

\* C7's case: 3661.9996 seconds has been formatted.
C7_Witness ==
    /\ pc = "timestamp_return"
    /\ seconds = 3661 * TicksPerSecond + 9996

(***************************************************************************)
(* parse_textgrid                                                          *)
(***************************************************************************)
\* s.split("="): the pieces of s between its "=" characters.
RECURSIVE split_eq(_, _, _)
split_eq(s, piece, acc) ==
    IF s = <<>> THEN Append(acc, piece)
    ELSE IF Head(s) = "=" THEN split_eq(Tail(s), <<>>, Append(acc, piece))
    ELSE split_eq(Tail(s), Append(piece, Head(s)), acc)

\* s.split("=", 1): s cut at its first "=" only.
RECURSIVE split_eq_once(_, _)
split_eq_once(s, piece) ==
    IF s = <<>> THEN <<piece>>
    ELSE IF Head(s) = "=" THEN <<piece, Tail(s)>>
    ELSE split_eq_once(Tail(s), Append(piece, Head(s)))

DigitValue(c) ==
    CASE c = "0" -> 0 [] c = "1" -> 1 [] c = "2" -> 2 [] c = "3" -> 3 [] c = "4" -> 4
      [] c = "5" -> 5 [] c = "6" -> 6 [] c = "7" -> 7 [] c = "8" -> 8 [] c = "9" -> 9

RECURSIVE digits_value(_, _)
digits_value(s, acc) ==
    IF s = <<>> THEN acc ELSE digits_value(Tail(s), 10 * acc + DigitValue(Head(s)))

RECURSIVE power_of_ten(_)
power_of_ten(n) == IF n = 0 THEN 1 ELSE 10 * power_of_ten(n - 1)

\* float(s) for the decimals a TextGrid holds (digits, then at most one point and up
\* to four more digits): <<ticks>>; for any other text <<>>, which is a ValueError.
float_of(s) ==
    LET t == strip(s)
        point == {k \in 1..Len(t) : t[k] = "."}
        whole == IF point = {} THEN t ELSE SubSeq(t, 1, (CHOOSE k \in point : TRUE) - 1)
        fraction == IF point = {} THEN <<>>
                    ELSE SubSeq(t, (CHOOSE k \in point : TRUE) + 1, Len(t))
    IN  IF /\ Cardinality(point) <= 1
           /\ whole \o fraction # <<>>
           /\ \A k \in 1..Len(whole) : whole[k] \in Digits
           /\ \A k \in 1..Len(fraction) : fraction[k] \in Digits
           /\ Len(fraction) <= 4
        THEN <<digits_value(whole, 0) * TicksPerSecond
               + digits_value(fraction, 0) * power_of_ten(4 - Len(fraction))>>
        ELSE <<>>

WordsTierName == <<"w", "o", "r", "d", "s">>
NamePrefix == <<"n", "a", "m", "e", " ", "=">>
XminPrefix == <<"x", "m", "i", "n", " ", "=">>
XmaxPrefix == <<"x", "m", "a", "x", " ", "=">>
TextPrefix == <<"t", "e", "x", "t", " ", "=">>

\* line.split("=")[1].strip().strip('"')
tier_name_of(line) == strip_quotes(strip(split_eq(line, <<>>, <<>>)[2]))

\* tier_name.lower() == "words"
names_words_tier(line) == lower(tier_name_of(line)) = WordsTierName

\* float(line.split("=")[1].strip())
bound_of(line) == float_of(strip(split_eq(line, <<>>, <<>>)[2]))

\* line.split("=", 1)[1].strip().strip('"')
text_of(line) == strip_quotes(strip(split_eq_once(line, <<>>)[2]))

\* d[key] = value on a dict d.
dict_set(d, key, value) == (key :> value) @@ d

\* One iteration of the loop over the file's lines. raised: a ValueError left the function.
parse_line(st, raw) ==
    LET line == strip(raw)
    IN  IF startswith(line, NamePrefix)
        THEN [st EXCEPT !.in_words_tier = names_words_tier(line)]
        ELSE IF st.in_words_tier /\ startswith(line, XminPrefix)
        THEN IF bound_of(line) = <<>> THEN [st EXCEPT !.raised = TRUE]
             ELSE [st EXCEPT !.current_interval = dict_set(@, "xmin", bound_of(line)[1])]
        ELSE IF st.in_words_tier /\ startswith(line, XmaxPrefix)
        THEN IF bound_of(line) = <<>> THEN [st EXCEPT !.raised = TRUE]
             ELSE [st EXCEPT !.current_interval = dict_set(@, "xmax", bound_of(line)[1])]
        ELSE IF st.in_words_tier /\ startswith(line, TextPrefix)
        THEN [st EXCEPT !.intervals =
                            Append(@, dict_set(st.current_interval, "text", text_of(line))),
                        !.current_interval = <<>>]
        ELSE st

\* The whole function, as the pipeline calls it.
RECURSIVE parse_from(_, _, _)
parse_from(file, k, st) ==
    IF st.raised \/ k > Len(file) THEN st
    ELSE parse_from(file, k + 1, parse_line(st, file[k]))

parse_textgrid(file) ==
    parse_from(file, 1, [intervals |-> <<>>, current_interval |-> <<>>,
                         in_words_tier |-> FALSE, raised |-> FALSE])

(***************************************************************************)
(* SpecParse: parse_textgrid, one line a step.                             *)
(***************************************************************************)
\* What a line declares: its kind, the characters that state its value (a name or
\* a text without its quotes), and for a bound the time stated, in ticks (-1 when
\* the characters state no number).
Declared(kind, written, ticks) == [kind |-> kind, written |-> written, ticks |-> ticks]

DeclaredLines ==
    {Declared("name", <<"W", "o", "r", "d", "s">>, 0),
     Declared("name", <<"p", "h", "o", "n", "e", "s">>, 0),
     Declared("name", <<"w", "o", "r", "d", "s", "=", "x">>, 0),
     Declared("xmin", <<"0">>, 0),
     Declared("xmin", <<"1", ".", "5">>, 15000),
     Declared("xmin", <<"x">>, -1),
     Declared("xmax", <<"0", ".", "5">>, 5000),
     Declared("text", <<"a">>, 0),
     Declared("text", <<"a", "=", "b">>, 0),
     Declared("text", <<>>, 0)}

\* The line of the file that declares d: indented, `key = value`, names and texts quoted.
Rendered(d) ==
    LET quoted == <<"\"">> \o d.written \o <<"\"">>
    IN  <<" ", " ">> \o
        (CASE d.kind = "name" -> NamePrefix \o <<" ">> \o quoted
           [] d.kind = "xmin" -> XminPrefix \o <<" ">> \o d.written
           [] d.kind = "xmax" -> XmaxPrefix \o <<" ">> \o d.written
           [] d.kind = "text" -> TextPrefix \o <<" ">> \o quoted)

ParseState ==
    [intervals |-> intervals, current_interval |-> current_interval,
     in_words_tier |-> in_words_tier, raised |-> FALSE]

ParseInit ==
    /\ pc = "parse_call"
    /\ pos = 0
    /\ word_intervals = <<>>
    /\ document \in SeqsUpTo(DeclaredLines, MaxLines)
    /\ lines = [k \in 1..Len(document) |-> Rendered(document[k])]
    /\ intervals = <<>>
    /\ current_interval = <<>>
    /\ in_words_tier = FALSE
    /\ ReinjectIdle /\ GroupIdle /\ TimestampIdle /\ PipelineIdle

\* Lines 48-50: no interval yet, an empty accumulator, not in the words tier.
ParseEnter ==
    /\ pc = "parse_call"
    /\ intervals' = <<>>
    /\ current_interval' = <<>>
    /\ in_words_tier' = FALSE
    /\ pc' = "parse_for"
    /\ UNCHANGED <<pos, word_intervals, document, lines>>
    /\ UNCHANGED <<reinject_vars, group_vars, timestamp_vars, pipeline_vars>>

\* Lines 53-66: one line of the file.
ParseLine ==
    /\ pc = "parse_for"
    /\ pos < Len(lines)
    /\ LET st == parse_line(ParseState, lines[pos + 1])
       IN  /\ intervals' = st.intervals
           /\ current_interval' = st.current_interval
           /\ in_words_tier' = st.in_words_tier
           /\ pc' = IF st.raised THEN "ValueError" ELSE "parse_for"
    /\ pos' = pos + 1
    /\ UNCHANGED <<word_intervals, document, lines>>
    /\ UNCHANGED <<reinject_vars, group_vars, timestamp_vars, pipeline_vars>>

\* Line 68: the end of the file.
ParseReturn ==
    /\ pc = "parse_for"
    /\ pos = Len(lines)
    /\ pc' = "parse_return"
    /\ UNCHANGED <<pos, word_intervals, parse_vars>>
    /\ UNCHANGED <<reinject_vars, group_vars, timestamp_vars, pipeline_vars>>

ParseNext ==
    \/ ParseEnter
    \/ ParseLine
    \/ ParseReturn

SpecParse == ParseInit /\ [][ParseNext]_vars

\* The tier-name lines before line k, and whether the last of them names "words"
\* in any mix of cases.
NameLinesBefore(k) == {j \in 1..(k - 1) : document[j].kind = "name"}

UnderWordsTier(k) ==
    /\ NameLinesBefore(k) # {}
    /\ LET last == CHOOSE j \in NameLinesBefore(k) : \A i \in NameLinesBefore(k) : i <= j
       IN  lower(document[last].written) = WordsTierName

\* The positions of the text lines that lie under a words tier, in document order.
RECURSIVE WordsTextLinesFrom(_)
WordsTextLinesFrom(k) ==
    IF k > Len(document) THEN <<>>
    ELSE IF document[k].kind = "text" /\ UnderWordsTier(k)
         THEN <<k>> \o WordsTextLinesFrom(k + 1)
         ELSE WordsTextLinesFrom(k + 1)

WordsTextLines == WordsTextLinesFrom(1)

\* Interval i of the output carries the values of the text line at position k: its
\* text, and the bounds of the xmin and xmax lines right before it when the interval
\* is stated by those three lines.
CarriesOwnValues(i, k) ==
    /\ intervals[i].text = document[k].written
    /\ (k >= 3 /\ document[k - 2].kind = "xmin" /\ document[k - 1].kind = "xmax")
       => /\ DOMAIN intervals[i] = {"xmin", "xmax", "text"}
          /\ intervals[i].xmin = document[k - 2].ticks
          /\ intervals[i].xmax = document[k - 1].ticks

\* C10: the function returns one interval per text line that lies under a tier named
\* "words" in any mix of cases, none for any other text line, in document order, each
\* with the start, end and text of its own interval.
C10_WordsTierOnly ==
    pc = "parse_return"
    => /\ Len(intervals) = Len(WordsTextLines)
       /\ \A i \in 1..Len(WordsTextLines) : CarriesOwnValues(i, WordsTextLines[i])

\* C10's case: a document with a words tier and another tier, each with a text line.
C10_Witness ==
    /\ pc = "parse_return"
    /\ Len(intervals) >= 1
    /\ \E k \in 1..Len(document) : document[k].kind = "text" /\ ~UnderWordsTier(k)

\* With no "=" inside a tier name, C10's statement holds as it stands.
WordsTierOnlyWithoutEqualsInNames ==
    (pc = "parse_return"
       /\ \A k \in 1..Len(document) :
              document[k].kind = "name"
              => "=" \notin {document[k].written[j] : j \in 1..Len(document[k].written)})
    => /\ Len(intervals) = Len(WordsTextLines)
       /\ \A i \in 1..Len(WordsTextLines) : CarriesOwnValues(i, WordsTextLines[i])

(***************************************************************************)
(* create_srt and the pipeline entry points                                *)
(***************************************************************************)
\* The text of the file: per cue its index, its two timestamps, its text, a blank line.
RECURSIVE srt_blocks(_, _, _)
srt_blocks(cues, idx, tie_up) ==
    IF idx > Len(cues) THEN <<>>
    ELSE decimal(idx) \o <<"\n">>
         \o seconds_to_timestamp(cues[idx][1], tie_up) \o <<" ", "-", "-", ">", " ">>
         \o seconds_to_timestamp(cues[idx][2], tie_up) \o <<"\n">>
         \o cues[idx][3] \o <<"\n", "\n">>
         \o srt_blocks(cues, idx + 1, tie_up)

create_srt(cues, tie_up) == srt_blocks(cues, 1, tie_up)

\* max_chars per video type: 30 for "Shorts"; otherwise 50 in main, 60 in the GUI file.
ShortsMaxChars == 30
LongMaxCharsMfa == 50
LongMaxCharsUi == 60

max_chars_of(e, video_type) ==
    IF lower(video_type) = <<"s", "h", "o", "r", "t", "s">> THEN ShortsMaxChars
    ELSE IF e = "main" THEN LongMaxCharsMfa ELSE LongMaxCharsUi

VideoTypes == {<<"S", "h", "o", "r", "t", "s">>, <<"L", "o", "n", "g">>}

\* What an entry point does once the engine is over and it goes on to the TextGrid:
\* the calls it makes, the file it writes (<<>>: none) and the exception that ends it
\* ("none": it ran to its end). file is <<>> when the engine left no TextGrid.
after_alignment(e, file, script, limit, saves, tie_up) ==
    LET v == IF e = "main" THEN "mfa" ELSE "ui"
        result(calls, srt, error) == [calls |-> calls, srt |-> srt, error |-> error]
    IN  IF file = <<>>
        THEN \* main tests os.path.exists first; the others fail inside parse_textgrid's open
             result(IF e = "main" THEN <<>> ELSE <<"parse_textgrid">>,
                    <<>>, "FileNotFoundError")
        ELSE LET parsed == parse_textgrid(file[1])
             IN  IF parsed.raised
                 THEN result(<<"parse_textgrid">>, <<>>, "ValueError")
                 ELSE LET reinjected ==
                              reinject_case_and_characters(parsed.intervals, script)
                          called == <<"parse_textgrid", "reinject_case_and_characters">>
                      IN  IF e = "main" /\ reinjected = <<>>
                          THEN result(called, <<>>, "ValueError")
                          ELSE LET grouped ==
                                       group_words_into_sentences(v, reinjected, limit)
                                   all == Append(called, "group_words_into_sentences")
                               IN  IF grouped.raised
                                   THEN result(all, <<>>, "KeyError")
                                   ELSE IF e = "gui" /\ ~saves
                                   THEN result(all, <<>>, "none")
                                   ELSE result(Append(all, "create_srt"),
                                               <<create_srt(grouped.subtitles, tie_up)>>,
                                               "none")

(***************************************************************************)
(* SpecPipeline: one run of main, generate_subtitles or the GUI.           *)
(***************************************************************************)
NameWords == Rendered(Declared("name", <<"W", "o", "r", "d", "s">>, 0))
NamePhones == Rendered(Declared("name", <<"p", "h", "o", "n", "e", "s">>, 0))
Xmin0 == Rendered(Declared("xmin", <<"0">>, 0))
XminBad == Rendered(Declared("xmin", <<"x">>, -1))
Xmax05 == Rendered(Declared("xmax", <<"0", ".", "5">>, 5000))
TextA == Rendered(Declared("text", <<"a">>, 0))
TextBlank == Rendered(Declared("text", <<>>, 0))

\* The TextGrid files the engine may leave: no words tier; a words tier with a word,
\* with a silence only, with a word and a silence; a text without bounds; a bound
\* that is no number; an empty file.
PipelineDocuments ==
    {<<NamePhones, Xmin0, Xmax05, TextA>>,
     <<NameWords, Xmin0, Xmax05, TextA>>,
     <<NameWords, Xmin0, Xmax05, TextBlank>>,
     <<NameWords, Xmin0, Xmax05, TextA, Xmin0, Xmax05, TextBlank,
       NamePhones, Xmin0, Xmax05, TextA>>,
     <<NameWords, TextA>>,
     <<NameWords, XminBad>>,
     <<>>}

PipelineScripts == {<<>>, <<"A", "'">>, <<"b", " ", "A">>}

PipelineInit ==
    /\ pc = "pipeline_start"
    /\ pos = 0
    /\ word_intervals = <<>>
    /\ entry \in {"main", "generate_subtitles", "gui"}
    /\ mfa = "idle"
    /\ textgrid = <<>>
    /\ save_path = FALSE
    /\ srt_file = <<>>
    /\ outcome = "running"
    /\ trace = <<>>
    /\ run_button = TRUE
    /\ original_script \in PipelineScripts
    /\ words_from_script = <<>>
    /\ updated_intervals = <<>>
    /\ script_index = 0
    /\ input_intervals = <<>>
    /\ matched = <<>>
    /\ GroupIdle /\ TimestampIdle /\ ParseIdle

\* What every entry point does up to the engine's start: max_chars, the two temporary
\* directories, the copies, the command.
StartEngine(e) ==
    /\ pc = "pipeline_start"
    /\ entry = e
    /\ \E video_type \in VideoTypes : max_chars' = max_chars_of(e, video_type)
    /\ variant' = IF e = "main" THEN "mfa" ELSE "ui"
    /\ mfa' = "running"
    /\ trace' = Append(trace, "mfa_start")
    /\ pc' = "pipeline_waiting"
    /\ UNCHANGED <<pos, word_intervals, reinject_vars, timestamp_vars, parse_vars>>
    /\ UNCHANGED <<subtitles, current_sentence, sentence_start, line_words>>
    /\ UNCHANGED <<entry, textgrid, save_path, srt_file, outcome>>

\* main, lines 120-171: up to subprocess.run.
MainStart ==
    /\ StartEngine("main")
    /\ UNCHANGED run_button

\* generate_subtitles, lines 95-119: up to subprocess.run.
GenerateStart ==
    /\ StartEngine("generate_subtitles")
    /\ UNCHANGED run_button

\* SubtitleGUI.run_alignment with two existing files: the button is disabled, the
\* engine is started with on_mfa_finished connected to its finished signal.
GuiRunAlignment ==
    /\ run_button
    /\ StartEngine("gui")
    /\ run_button' = FALSE

\* The engine ends, well or not, and has or has not left a TextGrid file.
MfaExit ==
    /\ mfa = "running"
    /\ mfa' \in {"exit_ok", "exit_failed"}
    /\ textgrid' \in {<<>>} \cup {<<d>> : d \in PipelineDocuments}
    /\ UNCHANGED <<pc, pos, word_intervals, reinject_vars, group_vars, timestamp_vars,
                   parse_vars>>
    /\ UNCHANGED <<entry, save_path, srt_file, outcome, trace, run_button>>

\* The state after the rest of an entry point ran: r is what after_alignment found.
Finish(r, ended) ==
    /\ trace' = trace \o r.calls
    /\ srt_file' = r.srt
    /\ outcome' = ended
    /\ pc' = "pipeline_done"
    /\ UNCHANGED <<pos, word_intervals, reinject_vars, group_vars, timestamp_vars,
                   parse_vars>>
    /\ UNCHANGED <<entry, mfa, textgrid>>

NoCalls == [calls |-> <<>>, srt |-> <<>>, error |-> "CalledProcessError"]

\* main, lines 171-192: CalledProcessError is caught and main returns; else the
\* TextGrid must exist, is parsed, reinjected, must not be empty, is grouped, written.
MainAfterMfa ==
    /\ pc = "pipeline_waiting"
    /\ entry = "main"
    /\ mfa \in {"exit_ok", "exit_failed"}
    /\ IF mfa = "exit_failed"
       THEN Finish(NoCalls, "returned_after_mfa_failure")
       ELSE \E tie_up \in BOOLEAN :
                LET r == after_alignment("main", textgrid, original_script, max_chars,
                                         TRUE, tie_up)
                IN  Finish(r, IF r.error = "none" THEN "srt_created" ELSE r.error)
    /\ UNCHANGED <<save_path, run_button>>

\* generate_subtitles, lines 119-131: check=True raises on a failed engine; else the
\* TextGrid is parsed, reinjected, grouped and written.
GenerateAfterMfa ==
    /\ pc = "pipeline_waiting"
    /\ entry = "generate_subtitles"
    /\ mfa \in {"exit_ok", "exit_failed"}
    /\ IF mfa = "exit_failed"
       THEN Finish(NoCalls, "CalledProcessError")
       ELSE \E tie_up \in BOOLEAN :
                LET r == after_alignment("generate_subtitles", textgrid, original_script,
                                         max_chars, TRUE, tie_up)
                IN  Finish(r, IF r.error = "none" THEN "srt_created" ELSE r.error)
    /\ UNCHANGED <<save_path, run_button>>

\* SubtitleGUI.on_mfa_finished, the slot of the engine's finished signal: it reads
\* neither the exit code nor the exit status; any exception ends in an error dialog;
\* the button is enabled again.
GuiOnMfaFinished ==
    /\ pc = "pipeline_waiting"
    /\ entry = "gui"
    /\ mfa \in {"exit_ok", "exit_failed"}
    /\ \E saves \in BOOLEAN, tie_up \in BOOLEAN :
           LET r == after_alignment("gui", textgrid, original_script, max_chars,
                                    saves, tie_up)
           IN  /\ Finish(r, IF r.error # "none" THEN "error_dialog"
                            ELSE IF r.srt = <<>> THEN "save_cancelled"
                            ELSE "srt_created")
               /\ save_path' = (r.srt # <<>>)
    /\ run_button' = TRUE

PipelineNext ==
    \/ MainStart
    \/ GenerateStart
    \/ GuiRunAlignment
    \/ MfaExit
    \/ MainAfterMfa
    \/ GenerateAfterMfa
    \/ GuiOnMfaFinished

SpecPipeline == PipelineInit /\ [][PipelineNext]_vars

Called(name) == \E k \in 1..Len(trace) : trace[k] = name

\* The run read a TextGrid in which parsing found no words-tier interval, or from
\* which reinjection kept none.
NothingAligned ==
    /\ pc = "pipeline_done"
    /\ Called("parse_textgrid")
    /\ textgrid # <<>>
    /\ ~parse_textgrid(textgrid[1]).raised
    /\ reinject_case_and_characters(parse_textgrid(textgrid[1]).intervals,
                                    original_script) = <<>>

\* C8: in every entry point, a run that finds no words-tier interval, or whose
\* reinjection keeps none, does not end in success (it ends in an error, or in the
\* GUI at the latest with the user leaving the save dialog), never calls create_srt,
\* and writes no subtitle file.
C8_EmptyAlignmentAborts ==
    NothingAligned
    => /\ outcome # "srt_created"
       /\ ~Called("create_srt")
       /\ srt_file = <<>>

\* What of C8 holds: main raises ValueError, calls no create_srt, writes no file.
MainAbortsOnEmptyAlignment ==
    (NothingAligned /\ entry = "main")
    => /\ outcome = "ValueError"
       /\ ~Called("create_srt")
       /\ srt_file = <<>>

\* C9: in every entry point the TextGrid is parsed only after the engine ended with
\* success; after a failed engine neither parse_textgrid nor create_srt is called,
\* and the engine is started once.
C9_ParseOnlyAfterSuccess ==
    /\ Called("parse_textgrid") => mfa = "exit_ok"
    /\ mfa = "exit_failed" => ~Called("parse_textgrid") /\ ~Called("create_srt")
    /\ Cardinality({k \in 1..Len(trace) : trace[k] = "mfa_start"}) <= 1

\* What of C9 holds: main and generate_subtitles go on only after a successful engine.
BlockingEntriesParseOnlyAfterSuccess ==
    entry \in {"main", "generate_subtitles"} => C9_ParseOnlyAfterSuccess

=============================================================================
